---- MODULE Spec2Model ----
EXTENDS Integers, Sequences, FiniteSets, TLC

\* Bounds of the model
MaxStages == 3
MaxRuns == 2
MaxLen == 2
MaxRefs == MaxStages + 1

Refs == 1..MaxRefs
\* Element values: one odd, one even
Elems == {1, 2}
RECURSIVE SeqsUpTo(_)
SeqsUpTo(k) == IF k = 0 THEN {<<>>}
               ELSE SeqsUpTo(k - 1) \cup {s \o <<e>> : s \in SeqsUpTo(k - 1), e \in Elems}
Inputs == SeqsUpTo(MaxLen)

\* JavaScript values handled by the pipeline: numbers and array references
IntV(n) == [t |-> "int", x |-> n]
RefV(r) == [t |-> "ref", x |-> r]

\* User callbacks used by the pipelines (pure, except "pushInto", which pushes onto the accumulator)
Preds == {"isOdd", "idxEven"}
Transforms == {"double", "addIdx"}
Combines == {"sum", "sumIdx", "pushInto"}

\* callbackFn(element, index, array) of a Filter
Pred(p, e, i, s) == IF p = "isOdd" THEN e % 2 = 1 ELSE i % 2 = 0
\* callbackFn(element, index, array) of a Map
Transform(f, e, i, s) == IF f = "double" THEN e * 2 ELSE e + i

\* reducer(accumulator, currentValue, currentIndex, array) of a Reduce
Combine(c, acc, e, i, s, h) ==
    CASE c = "sum"    -> [acc |-> IntV(acc.x + e), heap |-> h]
      [] c = "sumIdx" -> [acc |-> IntV(acc.x + e + i), heap |-> h]
      [] c = "pushInto" -> [acc |-> acc, heap |-> [h EXCEPT ![acc.x] = Append(h[acc.x], e)]]

\* A composed reducer: the wrapping stages (outermost first) around a terminal
\* step, which is Transducer._push or the Reduce callback. Returns the new
\* accumulator, the heap and the callback calls made, as [i, k, res] records.
RECURSIVE Step(_, _, _, _, _, _, _, _)
Step(chain, term, k, acc, e, i, s, h) ==
    IF k > Len(chain)
    THEN IF term = "push"
         THEN [acc |-> acc, heap |-> [h EXCEPT ![acc.x] = Append(h[acc.x], e)], log |-> <<>>]
         ELSE LET r == Combine(term, acc, e, i, s, h)
              IN [acc |-> r.acc, heap |-> r.heap, log |-> <<[i |-> i, k |-> k - 1, res |-> TRUE]>>]
    ELSE LET st == chain[k] IN
         IF st.kind = "Filter"
         THEN LET ok == Pred(st.fn, e, i, s)
                  ev == [i |-> i, k |-> k - 1, res |-> ok]
              IN IF ok
                 THEN LET r == Step(chain, term, k + 1, acc, e, i, s, h)
                      IN [acc |-> r.acc, heap |-> r.heap, log |-> <<ev>> \o r.log]
                 ELSE [acc |-> acc, heap |-> h, log |-> <<ev>>]
         ELSE LET v == Transform(st.fn, e, i, s)
                  ev == [i |-> i, k |-> k - 1, res |-> TRUE]
                  r == Step(chain, term, k + 1, acc, v, i, s, h)
              IN [acc |-> r.acc, heap |-> r.heap, log |-> <<ev>> \o r.log]

\* Variant traversing the array from its last index down
RECURSIVE LoopReversed(_, _, _, _, _, _, _)
LoopReversed(chain, term, i, acc, s, h, log) ==
    IF i >= Len(s) THEN [acc |-> acc, heap |-> h, log |-> log]
    ELSE LET r == Step(chain, term, 1, acc, s[Len(s) - i], Len(s) - 1 - i, s, h)
         IN LoopReversed(chain, term, i + 1, r.acc, s, r.heap, log \o r.log)

\* for (i++; i < n; i++) accumulator = reducer(accumulator, array[i], i, array);
RECURSIVE Loop(_, _, _, _, _, _, _)
Loop(chain, term, i, acc, s, h, log) ==
    IF i >= Len(s) THEN [acc |-> acc, heap |-> h, log |-> log]
    ELSE LET r == Step(chain, term, 1, acc, s[i + 1], i, s, h)
         IN Loop(chain, term, i + 1, r.acc, s, r.heap, log \o r.log)

IsReduce(st) == st.kind = "Reduce"

\* The reducer of a stage: Filter/Map store transducer(Transducer._push),
\* Reduce stores its callback.
StageReducer(st) == IF IsReduce(st) THEN [chain |-> <<>>, term |-> st.fn]
                    ELSE [chain |-> <<st>>, term |-> "push"]

\* Variant whose wrapping loop stops before stage 0 (i > 0 instead of i >= 0)
TransduceSkipFirst(stgs, s, isNull, h) ==
    IF isNull THEN [err |-> "MissingSequence", out |-> IntV(0), heap |-> h, log |-> <<>>]
    ELSE IF Len(stgs) = 0 THEN [err |-> "TypeError", out |-> IntV(0), heap |-> h, log |-> <<>>]
    ELSE IF \E k \in 2..(Len(stgs) - 1) : IsReduce(stgs[k])
    THEN [err |-> "ReduceNotLast", out |-> IntV(0), heap |-> h, log |-> <<>>]
    ELSE LET last == stgs[Len(stgs)]
             red == StageReducer(last)
             chain == SubSeq(stgs, 2, Len(stgs) - 1) \o red.chain
             r == Loop(chain, red.term, 0, last.init, s, h, <<>>)
         IN [err |-> "none", out |-> r.acc, heap |-> r.heap, log |-> r.log]

\* Transducer.prototype.transduce (second definition)
Transduce(stgs, s, isNull, h) ==
    IF isNull THEN [err |-> "MissingSequence", out |-> IntV(0), heap |-> h, log |-> <<>>]
    ELSE IF Len(stgs) = 0 THEN [err |-> "TypeError", out |-> IntV(0), heap |-> h, log |-> <<>>]
    ELSE IF \E k \in 1..(Len(stgs) - 1) : IsReduce(stgs[k])
    THEN [err |-> "ReduceNotLast", out |-> IntV(0), heap |-> h, log |-> <<>>]
    ELSE LET last == stgs[Len(stgs)]
             red == StageReducer(last)
             chain == SubSeq(stgs, 1, Len(stgs) - 1) \o red.chain
             r == Loop(chain, red.term, 0, last.init, s, h, <<>>)
         IN [err |-> "none", out |-> r.acc, heap |-> r.heap, log |-> r.log]

\* Transducer.prototype.compose (first definition, not overridden): wraps
\* every stage, the last one included, around the last stage's reducer.
Compose(stgs) ==
    IF Len(stgs) = 0 THEN [err |-> "TypeError"]
    ELSE IF \E k \in 1..Len(stgs) : IsReduce(stgs[k]) THEN [err |-> "ReduceNotLast"]
    ELSE LET last == stgs[Len(stgs)]
             red == StageReducer(last)
         IN [err |-> "none", init |-> last.init,
             reducer |-> [chain |-> stgs \o red.chain, term |-> red.term]]

VARIABLES stages, heap, nextRef, initialValue_, reducer_, runCount, prevRun, lastRun, lastOp, err, lastArgs
vars == <<stages, heap, nextRef, initialValue_, reducer_, runCount, prevRun, lastRun, lastOp, err, lastArgs>>

NoRun == [stages |-> <<>>, input |-> <<>>, isNull |-> FALSE, out |-> IntV(0),
          log |-> <<>>, err |-> "none"]

NoReducer == [chain |-> <<>>, term |-> "none"]

Init == /\ stages = <<>>
        /\ heap = [r \in Refs |-> <<>>]
        /\ nextRef = 1
        /\ initialValue_ = IntV(0)
        /\ reducer_ = NoReducer
        /\ runCount = 0
        /\ prevRun = NoRun
        /\ lastRun = NoRun
        /\ lastOp = "none"
        /\ err = "none"
        /\ lastArgs = [fn |-> "none", seed |-> "none"]

\* Callback arguments: a function, or null / undefined
NullArgs == {"null", "undefined"}

\* Transducer.filter / Transducer.map: throw when callbackFn == null
CallbackErr(fn) == IF fn \in NullArgs THEN "MissingCallback" ELSE "none"

\* Variant rejecting every falsy seed (!initialValue)
ReduceErrFalsy(fn, seed) == IF fn \in NullArgs THEN "MissingCallback"
                            ELSE IF seed \in NullArgs \cup {"zero", "empty"} THEN "MissingSeed" ELSE "none"

\* Transducer.reduce: callback checked first, then initialValue == null
ReduceErr(fn, seed) == IF fn \in NullArgs THEN "MissingCallback"
                       ELSE IF seed \in NullArgs THEN "MissingSeed" ELSE "none"

\* Transducer.prototype.filter / map: push new Transducer.Filter / Map (callbackFn);
\* the stage's initialValue is the array literal [] created by the constructor.
AddFM(kind, fns) ==
    /\ Len(stages) < MaxStages /\ nextRef <= MaxRefs
    /\ \E fn \in fns :
       /\ lastArgs' = [fn |-> fn, seed |-> "none"]
       /\ IF CallbackErr(fn) # "none"
          THEN /\ err' = CallbackErr(fn)
               /\ UNCHANGED <<stages, heap, nextRef>>
          ELSE /\ stages' = Append(stages, [kind |-> kind, fn |-> fn, init |-> RefV(nextRef), z0 |-> <<>>])
               /\ heap' = [heap EXCEPT ![nextRef] = <<>>]
               /\ nextRef' = nextRef + 1
               /\ err' = "none"
    /\ lastOp' = kind
    /\ UNCHANGED <<initialValue_, reducer_, runCount, prevRun, lastRun>>

\* Seed arguments of Reduce: 0, "", a fresh array [], null, undefined
SeedVal(seed) == IF seed = "zero" THEN IntV(0) ELSE [t |-> "str", x |-> 0]

\* Transducer.prototype.reduce: push new Transducer.Reduce(callbackFn, initialValue);
\* the stage keeps the caller's initialValue itself.
AddReduce(fns, seeds) ==
    /\ Len(stages) < MaxStages /\ nextRef <= MaxRefs
    /\ \E fn \in fns, seed \in seeds :
         /\ fn = "pushInto" => seed \in {"arr"} \cup NullArgs
         /\ seed = "arr" => fn \in {"pushInto"} \cup NullArgs
         /\ lastArgs' = [fn |-> fn, seed |-> seed]
         /\ IF ReduceErr(fn, seed) # "none"
            THEN /\ err' = ReduceErr(fn, seed)
                 /\ UNCHANGED <<stages, heap, nextRef>>
            ELSE IF seed = "arr"
            THEN /\ stages' = Append(stages, [kind |-> "Reduce", fn |-> fn, init |-> RefV(nextRef), z0 |-> <<>>])
                 /\ heap' = [heap EXCEPT ![nextRef] = <<>>]
                 /\ nextRef' = nextRef + 1
                 /\ err' = "none"
            ELSE /\ stages' = Append(stages, [kind |-> "Reduce", fn |-> fn, init |-> SeedVal(seed), z0 |-> <<>>])
                 /\ UNCHANGED <<heap, nextRef>>
                 /\ err' = "none"
    /\ lastOp' = "Reduce"
    /\ UNCHANGED <<initialValue_, reducer_, runCount, prevRun, lastRun>>

\* Records an execution of the pipeline (the last two are kept)
Record(stgs, s, isNull, r) ==
    /\ lastRun' = [stages |-> stgs, input |-> s, isNull |-> isNull, out |-> r.out,
                   log |-> r.log, err |-> r.err]
    /\ prevRun' = lastRun
    /\ runCount' = runCount + 1
    /\ heap' = r.heap
    /\ err' = r.err

ExecInputs == {<<s, FALSE>> : s \in Inputs} \cup {<<<<>>, TRUE>>}

\* Transducer.prototype.transduce(array)
TransduceA ==
    /\ runCount < MaxRuns
    /\ \E in \in ExecInputs :
         Record(stages, in[1], in[2], Transduce(stages, in[1], in[2], heap))
    /\ lastOp' = "transduce"
    /\ UNCHANGED <<stages, nextRef, initialValue_, reducer_, lastArgs>>

\* Transducer.prototype.compose()
ComposeA ==
    /\ LET c == Compose(stages) IN
         /\ err' = c.err
         /\ IF c.err = "none"
            THEN /\ initialValue_' = c.init
                 /\ reducer_' = c.reducer
            ELSE UNCHANGED <<initialValue_, reducer_>>
    /\ lastOp' = "compose"
    /\ UNCHANGED <<stages, heap, nextRef, runCount, prevRun, lastRun, lastArgs>>

\* Transducer.prototype.composeTransduce(array): this.compose(); return this.transduce(array)
ComposeTransduceA ==
    /\ runCount < MaxRuns
    /\ \E in \in ExecInputs :
         LET c == Compose(stages) IN
         IF c.err # "none"
         THEN /\ Record(stages, in[1], in[2], [err |-> c.err, out |-> IntV(0), heap |-> heap, log |-> <<>>])
              /\ UNCHANGED <<initialValue_, reducer_>>
         ELSE /\ initialValue_' = c.init
              /\ reducer_' = c.reducer
              /\ Record(stages, in[1], in[2], Transduce(stages, in[1], in[2], heap))
    /\ lastOp' = "composeTransduce"
    /\ UNCHANGED <<stages, nextRef, lastArgs>>

Next == \/ AddFM("Filter", Preds)
        \/ AddFM("Map", Transforms)
        \/ AddReduce(Combines, {"zero", "arr"})
        \/ ComposeA
        \/ TransduceA
        \/ ComposeTransduceA

Spec == Init /\ [][Next]_vars

\* Executions of pipelines already built by the builder methods: stage k
\* holds the array created for it as reference k.
\* Stage alphabet: Filter(isOdd), Map(double), Reduce(sum, 0)
OrderChoices(k) ==
    {[kind |-> "Filter", fn |-> "isOdd", init |-> RefV(k), z0 |-> <<>>],
     [kind |-> "Map", fn |-> "double", init |-> RefV(k), z0 |-> <<>>],
     [kind |-> "Reduce", fn |-> "sum", init |-> IntV(0), z0 |-> <<>>]}
RECURSIVE Pipes(_)
Pipes(n) == IF n = 0 THEN {<<>>} ELSE {p \o <<st>> : p \in Pipes(n - 1), st \in OrderChoices(n)}
FMRPipes == {<<[kind |-> "Filter", fn |-> p, init |-> RefV(1), z0 |-> <<>>],
               [kind |-> "Map", fn |-> f, init |-> RefV(2), z0 |-> <<>>],
               [kind |-> "Reduce", fn |-> c, init |-> IntV(0), z0 |-> <<>>]>> :
               p \in Preds, f \in Transforms, c \in {"sum", "sumIdx"}}

BuiltInit(P) ==
    /\ stages \in P
    /\ heap = [r \in Refs |-> <<>>]
    /\ nextRef = Len(stages) + 1
    /\ initialValue_ = IntV(0)
    /\ reducer_ = NoReducer
    /\ runCount = 0
    /\ prevRun = NoRun
    /\ lastRun = NoRun
    /\ lastOp = "none"
    /\ err = "none"
    /\ lastArgs = [fn |-> "none", seed |-> "none"]

ExecNext == TransduceA \/ ComposeA \/ ComposeTransduceA

RunSpec == BuiltInit(UNION {Pipes(n) : n \in 0..MaxStages}) /\ [][ExecNext]_vars
FMRSpec == BuiltInit(FMRPipes) /\ [][ExecNext]_vars

\* Building pipelines stage by stage, with absent callbacks and seeds
ConstructNext ==
    \/ AddFM("Filter", Preds \cup NullArgs)
    \/ AddFM("Map", Transforms \cup NullArgs)
    \/ AddReduce(Combines \cup NullArgs, {"zero", "empty", "arr"} \cup NullArgs)

ConstructSpec == Init /\ [][ConstructNext]_vars

\* ------------------------------------------------------------------
\* Reference semantics used by the properties

\* Array.prototype.filter / map / reduce, as the native sequential calls
RECURSIVE NativeFilter(_, _, _)
NativeFilter(s, p, j) == IF j > Len(s) THEN <<>>
                         ELSE (IF Pred(p, s[j], j - 1, s) THEN <<s[j]>> ELSE <<>>) \o NativeFilter(s, p, j + 1)
NativeMap(s, f) == [j \in 1..Len(s) |-> Transform(f, s[j], j - 1, s)]
RECURSIVE NativeReduce(_, _, _, _)
NativeReduce(s, c, a, j) == IF j > Len(s) THEN a
                            ELSE NativeReduce(s, c, Combine(c, IntV(a), s[j], j - 1, s, <<>>).acc.x, j + 1)

\* Elements an element-wise Filter/Map chain yields from s, each with its original index
RECURSIVE PassElem(_, _, _, _, _)
PassElem(stgs, k, e, i, s) ==
    IF k > Len(stgs) THEN <<<<e, i>>>>
    ELSE IF stgs[k].kind = "Filter"
         THEN IF Pred(stgs[k].fn, e, i, s) THEN PassElem(stgs, k + 1, e, i, s) ELSE <<>>
         ELSE PassElem(stgs, k + 1, Transform(stgs[k].fn, e, i, s), i, s)
RECURSIVE Passed(_, _, _)
Passed(stgs, s, j) == IF j > Len(s) THEN <<>> ELSE PassElem(stgs, 1, s[j], j - 1, s) \o Passed(stgs, s, j + 1)
Values(ps) == [j \in 1..Len(ps) |-> ps[j][1]]

\* Left fold of a pure combine over (element, original index) pairs
RECURSIVE FoldPairs(_, _, _, _)
FoldPairs(c, a, ps, s) == IF ps = <<>> THEN a
                          ELSE FoldPairs(c, Combine(c, IntV(a), Head(ps)[1], Head(ps)[2], s, <<>>).acc.x, Tail(ps), s)

Valid(stgs) == Len(stgs) > 0 /\ \A k \in 1..(Len(stgs) - 1) : ~IsReduce(stgs[k])
Executed == lastOp \in {"transduce", "composeTransduce"}
Pure == {"sum", "sumIdx"}
IsFMR(stgs) == /\ Len(stgs) = 3
               /\ stgs[1].kind = "Filter" /\ stgs[2].kind = "Map" /\ stgs[3].kind = "Reduce"
               /\ stgs[3].fn \in Pure /\ stgs[3].init = IntV(0)
NativeFMR(stgs, s) == NativeReduce(NativeMap(NativeFilter(s, stgs[1].fn, 1), stgs[2].fn), stgs[3].fn, 0, 1)

\* ------------------------------------------------------------------
\* Claims

\* C1 (original): Filter(P).Map(T).Reduce(C, Z) executed once over S returns
\* S.filter(P).map(T).reduce(C, Z), for all pure P, T, C, index-reading ones included.
C1_NativeEquivalence ==
    (Executed /\ err = "none" /\ IsFMR(lastRun.stages))
        => lastRun.out = IntV(NativeFMR(lastRun.stages, lastRun.input))

\* C1 (amended): the equivalence holds when T and C ignore their index and
\* sequence arguments (P may read them: native filter gets the original ones too).
C1_NativeEquivalenceIndexFree ==
    (Executed /\ err = "none" /\ IsFMR(lastRun.stages)
       /\ lastRun.stages[2].fn = "double" /\ lastRun.stages[3].fn = "sum")
        => lastRun.out = IntV(NativeFMR(lastRun.stages, lastRun.input))

C1_Witness ==
    /\ Executed /\ err = "none" /\ IsFMR(lastRun.stages)
    /\ lastRun.stages[2].fn = "double" /\ lastRun.stages[3].fn = "sum"
    /\ LET f == NativeFilter(lastRun.input, lastRun.stages[1].fn, 1)
       IN 0 < Len(f) /\ Len(f) < Len(lastRun.input)

FMOnly(stgs) == Len(stgs) > 0 /\ \A k \in 1..Len(stgs) : ~IsReduce(stgs[k])

\* C2: every execution of a Filter/Map-only pipeline returns (and keeps) exactly
\* the filtered/mapped elements of its own input, nothing from earlier runs.
C2_FreshAccumulator ==
    \A r \in {prevRun, lastRun} :
        (r.err = "none" /\ FMOnly(r.stages))
            => heap[r.out.x] = Values(Passed(r.stages, r.input, 1))

\* C3: a Reduce-terminated execution returns the left fold of C starting from a
\* copy of the original seed Z, and the caller's Z is never mutated.
C3_SeedCopied ==
    \A r \in {prevRun, lastRun} :
        LET st == r.stages
            last == st[Len(st)]
            ps == Passed(SubSeq(st, 1, Len(st) - 1), r.input, 1)
        IN (r.err = "none" /\ Len(st) > 0 /\ IsReduce(last))
             => IF last.fn = "pushInto"
                THEN /\ heap[r.out.x] = last.z0 \o Values(ps)
                     /\ heap[last.init.x] = last.z0
                ELSE r.out = IntV(FoldPairs(last.fn, last.init.x, ps, r.input))

\* C4: composeTransduce on a valid pipeline does not raise and returns what
\* executing the pipeline over the same sequence returns.
C4_ComposeTransduce ==
    (lastOp = "composeTransduce" /\ Valid(lastRun.stages) /\ ~lastRun.isNull)
        => /\ err = "none"
           /\ lastRun.out = Transduce(lastRun.stages, lastRun.input, FALSE, heap).out

\* C5: compose on a valid pipeline succeeds, and its combined step applies each
\* stage exactly once per element.
C5_ComposeOnce ==
    (lastOp = "compose" /\ Valid(stages))
        => /\ err = "none"
           /\ Len(reducer_.chain) + (IF reducer_.term \in Combines THEN 1 ELSE 0) = Len(stages)

\* C6: a missing callback fails construction with MissingCallback, a missing
\* Reduce seed with MissingSeed; falsy seeds 0 and "" are kept unchanged.
C6_ConstructionChecks ==
    lastOp \in {"Filter", "Map", "Reduce"} =>
        /\ lastArgs.fn \in NullArgs => err = "MissingCallback"
        /\ (lastArgs.fn \notin NullArgs /\ lastArgs.seed \in NullArgs) => err = "MissingSeed"
        /\ (lastArgs.fn \notin NullArgs /\ lastArgs.seed \notin NullArgs)
             => /\ err = "none"
                /\ stages[Len(stages)].fn = lastArgs.fn
                /\ lastArgs.seed = "zero" => stages[Len(stages)].init = IntV(0)
                /\ lastArgs.seed = "empty" => stages[Len(stages)].init = [t |-> "str", x |-> 0]

C6_Witness == lastOp = "Reduce" /\ err = "none" /\ lastArgs.seed = "empty"

Acted == \/ lastOp = "compose"
         \/ Executed /\ ~lastRun.isNull
HasReduceNotLast(stgs) == \E k \in 1..(Len(stgs) - 1) : IsReduce(stgs[k])

\* C7: compose or execute with a Reduce before the last stage fails with
\* ReduceNotLast before any callback runs; a list whose Reduce is last never does.
C7_ReduceNotLast ==
    (Acted /\ Len(stages) > 0)
        => /\ HasReduceNotLast(stages)
                => err = "ReduceNotLast" /\ (Executed => lastRun.log = <<>>)
           /\ ~HasReduceNotLast(stages) => err # "ReduceNotLast"

\* C8: compose or execute on a pipeline with no stages fails with EmptyPipeline.
C8_EmptyPipeline == (Acted /\ stages = <<>>) => err = "EmptyPipeline"

\* C9: a Filter(P)-only pipeline returns the ordered subsequence of S satisfying P,
\* P being called once per element with its original index.
C9_FilterOnly ==
    /\ \A r \in {prevRun, lastRun} :
         (r.err = "none" /\ Len(r.stages) = 1 /\ r.stages[1].kind = "Filter")
            => heap[r.out.x] = NativeFilter(r.input, r.stages[1].fn, 1)
    /\ (Executed /\ err = "none" /\ Len(lastRun.stages) = 1 /\ lastRun.stages[1].kind = "Filter")
         => /\ Len(lastRun.log) = Len(lastRun.input)
            /\ \A j \in 1..Len(lastRun.log) : lastRun.log[j].i = j - 1 /\ lastRun.log[j].k = 0

\* C10: callbacks run element by element in ascending index order and, within an
\* element, stage by stage; a stage runs only if every earlier Filter accepted,
\* and a rejection never ends the traversal.
C10_CallbackOrder ==
    (Executed /\ err = "none") =>
        LET L == lastRun.log
            n == Len(lastRun.input)
            m == Len(lastRun.stages)
        IN /\ \A a, b \in 1..Len(L) :
                a < b => (L[a].i < L[b].i \/ (L[a].i = L[b].i /\ L[a].k < L[b].k))
           /\ \A a \in 1..Len(L) : \A j \in 0..(L[a].k - 1) :
                \E b \in 1..Len(L) : L[b].i = L[a].i /\ L[b].k = j /\ L[b].res
           /\ \A i \in 0..(n - 1) : \E b \in 1..Len(L) : L[b].i = i /\ L[b].k = 0
           /\ \A a \in 1..Len(L) : (L[a].res /\ L[a].k < m - 1)
                => \E b \in 1..Len(L) : L[b].i = L[a].i /\ L[b].k = L[a].k + 1

C10_Witness ==
    /\ Executed /\ err = "none" /\ Len(lastRun.stages) >= 2
    /\ \E a, b \in 1..Len(lastRun.log) :
         a < b /\ ~lastRun.log[a].res /\ lastRun.log[b].i > lastRun.log[a].i

====
